---- MODULE Spec2Model ----
(***************************************************************************)
(* Token-bucket rate limiter: the in-memory limiter                        *)
(* (RateLimiterTokenBucket.js) and the Redis-backed limiter                *)
(* (RateLimiterTokenBucketRedis.js) with its Lua script, its in-memory     *)
(* abuse guard and its insurance (fallback) in-memory limiter.             *)
(*                                                                         *)
(* Times are milliseconds.  Map keys are the strings the code builds.      *)
(* A value of a blockedKeys Map is either a number (a deadline) or an      *)
(* object {consumedTokens, firstRequest}; both are written as one record   *)
(* shape whose field "type" is the result of JavaScript's typeof.          *)
(***************************************************************************)
EXTENDS Integers, Sequences, FiniteSets, Bags, TLC

VARIABLES
    now,              \* Date.now(), also the Redis server's clock
    steps,            \* number of getToken calls and clock advances so far
    backend,          \* the class under test: "local" or "redis"
    opts,             \* the constructor's options
    callers,          \* how many getToken calls may await redis.eval at once
    buckets,          \* RateLimiterTokenBucket.buckets
    blockedKeys,      \* RateLimiterTokenBucket.blockedKeys
    redisBlockedKeys, \* RateLimiterTokenBucketRedis.blockedKeys
    store,            \* the keys held by the Redis server: key -> [val, exp]
    inflight,         \* the bag of redis.eval calls sent and not yet answered
    last,             \* the getToken call that returned in the latest step, and what it did
    deniedAt,         \* bucket key -> time of its latest denial that starts a lockout
    calls,            \* block key -> times of its getToken calls since its latest abuse lockout ended
    served,           \* Redis key -> unit consumes the script has granted on its bucket, while countable
    twin,             \* the Redis-backed limiter's answer to the call in last, when both are driven together
    granted,          \* where kept: the calls a bucket has granted so far, as [key, at, amount]
    credited,         \* where kept: bucket key -> the refill tokens its bucket received since created
    redis             \* this.redis: "client", or "pending" / "undefined" (no client yet / none to come)

vars == <<now, steps, backend, opts, callers, redis, buckets, blockedKeys, redisBlockedKeys,
          store, inflight, last, deniedAt, calls, served, twin, granted, credited>>

----------------------------------------------------------------------------
(* Bounds of the model *)

Tick == 500          \* granularity of the clock advances
StartTime == 1000    \* the clock reading at construction (Date.now() > 0)
MaxSteps == 5        \* getToken calls plus clock advances in one behaviour
MaxAmount == 4       \* largest requestedTokens (above every capacity)
MaxDrift == 4        \* ticks the clock may run past the start of a period
MaxPeriods == 1      \* bucket lifetimes (KeyExpireTime) the clock may run through

(* Program constants *)

InflowUnit == 1000        \* the refill time unit, ms
KeyExpireTime == 60000    \* bucket lifetime: setTimeout / PX, ms
WindowMs == 60000         \* the abuse guard's window, ms
SweepThreshold == 999     \* blockedKeys.size above which the sweep runs

(* Inputs *)

TokenKeys == {"user1"}
BlockKeys == {"", "ip1"}
Amounts == {0, 1, MaxAmount}
Statuses == {"ready", "reconnecting"}
Deltas == {Tick, 2 * Tick, KeyExpireTime}
ClockReadings ==
    {StartTime + p * KeyExpireTime + a * Tick : p \in 0..MaxPeriods, a \in 0..MaxDrift}

Capacities == {3}
Rates == {2}
LockDurations == {0, 1}
BlockThresholds == {0, 2}
BlockDurations == {1}

Min(a, b) == IF a < b THEN a ELSE b

----------------------------------------------------------------------------
(* JavaScript Map and String helpers *)

EmptyMap == [x \in {} |-> 0]
MapHas(m, k) == k \in DOMAIN m
MapSet(m, k, v) == IF k \in DOMAIN m THEN [m EXCEPT ![k] = v] ELSE (k :> v) @@ m
MapDelete(m, k) == IF k \in DOMAIN m THEN [x \in (DOMAIN m) \ {k} |-> m[x]] ELSE m
MapDeleteAll(m, ks) ==
    IF ks \cap DOMAIN m = {} THEN m ELSE [x \in (DOMAIN m) \ ks |-> m[x]]

NumVal(t) == [type |-> "number", val |-> t, consumedTokens |-> 0, firstRequest |-> 0]
ObjVal(c, f) == [type |-> "object", val |-> 0, consumedTokens |-> c, firstRequest |-> f]

EndsWith(s, suf) ==
    /\ Len(s) >= Len(suf)
    /\ SubSeq(s, Len(s) - Len(suf) + 1, Len(s)) = suf

Includes(s, sub) ==
    \E i \in 1..(Len(s) - Len(sub) + 1) : SubSeq(s, i, i + Len(sub) - 1) = sub

\* Date.now() < blockUntil: false when the stored value is an object (NaN)
NowBefore(t, v) == v.type = "number" /\ t < v.val

----------------------------------------------------------------------------
(* RateLimiterTokenBucket (in memory) *)

\* a lockout that never expires
IsKeyBlockedForever(m, key, t) ==
    [blocked |-> MapHas(m, key) \/ MapHas(m, key \o "-lock"), map |-> m]

\* _isKeyBlocked: the answer and the Map after the deletions it makes
IsKeyBlocked(m, key, t) ==
    LET first == MapHas(m, key) /\ NowBefore(t, m[key])
        m1 == IF MapHas(m, key) /\ ~first
              THEN MapDelete(MapDelete(m, key), key \o ":consumed")
              ELSE m
        lockKey == key \o "-lock"
        second == ~first /\ MapHas(m1, lockKey) /\ NowBefore(t, m1[lockKey])
        m2 == IF ~first /\ MapHas(m1, lockKey) /\ ~second
              THEN MapDelete(m1, lockKey)
              ELSE m1
    IN [blocked |-> first \/ second, map |-> m2]

\* a deadline kept in lockDuration's unit (seconds) instead of milliseconds
SetLockDurationSeconds(o, m, tokenKey, t) ==
    MapSet(m, tokenKey \o "-lock", NumVal(t + o.lockDuration))

\* _setLockDuration
SetLockDuration(o, m, tokenKey, t) ==
    MapSet(m, tokenKey \o "-lock", NumVal(t + o.lockDuration * 1000))

\* a lockout installed at every denial, whatever lockDuration is
LockOnDenialAlways(o, m, fullTokenKey, t) == SetLockDuration(o, m, fullTokenKey, t)

\* if (this.lockDuration > 0) this._setLockDuration(fullTokenKey)
LockOnDenial(o, m, fullTokenKey, t) ==
    IF o.lockDuration > 0 THEN SetLockDuration(o, m, fullTokenKey, t) ELSE m

\* _blockKey (the same code in both classes)
BlockKey(o, m, blockedKey, t) ==
    MapSet(m, blockedKey, NumVal(t + o.inMemoryBlockDuration * 1000))

\* a sweep that drops every lockout, whatever its deadline
CollectEveryLockout(m, t) ==
    MapDeleteAll(m, {k \in DOMAIN m : m[k].type = "number"})

\* _collectExpiredBlockedKeys of the in-memory limiter
CollectExpiredBlockedKeys(m, t) ==
    LET expired == {k \in DOMAIN m : m[k].type = "number" /\ m[k].val <= t}
        counters == {k \o ":consumed" : k \in {e \in expired : ~EndsWith(e, "-lock")}}
        stale == {k \in DOMAIN m : /\ m[k].type = "object"
                                   /\ t - m[k].firstRequest >= WindowMs
                                   /\ Includes(k, "consumed")}
    IN MapDeleteAll(m, expired \cup counters \cup stale)

\* _collectExpiredBlockedKeys of the Redis-backed limiter
RedisCollectExpiredBlockedKeys(m, t) ==
    LET expired == {k \in DOMAIN m : m[k].type = "number" /\ m[k].val <= t}
        stale == {k \in DOMAIN m : /\ m[k].type = "object"
                                   /\ t - m[k].firstRequest >= WindowMs
                                   /\ Includes(k, "consumed")}
    IN MapDeleteAll(m, expired \cup stale)

\* a guard whose call that installs the lockout leaves no counter behind
CountConsumedEvicting(o, m, fullBlockedKey, t, redisClass) ==
    LET ck == fullBlockedKey \o ":consumed"
        rec == IF MapHas(m, ck) THEN m[ck] ELSE ObjVal(0, 0)
    IN IF rec.firstRequest # 0 /\ t - rec.firstRequest >= WindowMs
       THEN MapSet(m, ck, ObjVal(rec.consumedTokens + 1, rec.firstRequest))
       ELSE IF rec.consumedTokens >= o.inMemoryBlockOnConsumed
            THEN BlockKey(o, MapDelete(m, ck), fullBlockedKey, t)
            ELSE MapSet(m, ck, ObjVal(rec.consumedTokens + 1,
                                      IF rec.firstRequest = 0 THEN t ELSE rec.firstRequest))

\* The fixed-window block of getToken, guarded by inMemoryBlockOnConsumed,
\* up to the sweep (the same code in both classes).
\* The keys of the model never make a counter key hold a number.
Counted(o, m, fullBlockedKey, t) ==
    LET ck == fullBlockedKey \o ":consumed"
        rec == IF MapHas(m, ck) THEN m[ck] ELSE ObjVal(0, 0)
        consumedTokens == rec.consumedTokens
        firstRequest == rec.firstRequest
        m1 == IF firstRequest # 0 /\ t - firstRequest >= WindowMs
              THEN MapDelete(m, ck)
              ELSE IF consumedTokens >= o.inMemoryBlockOnConsumed
                   THEN BlockKey(o, MapDelete(m, ck), fullBlockedKey, t)
                   ELSE m
        currentConsumedTokens == consumedTokens + 1
        m2 == MapSet(m1, ck, ObjVal(currentConsumedTokens, firstRequest))
    IN IF firstRequest = 0
       THEN MapSet(m2, ck, ObjVal(currentConsumedTokens, t))
       ELSE m2

\* the whole block: the count, then the sweep of a Map of more than 999 entries
CountConsumed(o, m, fullBlockedKey, t, redisClass) ==
    LET m3 == Counted(o, m, fullBlockedKey, t)
    IN IF Cardinality(DOMAIN m3) > SweepThreshold
       THEN IF redisClass THEN RedisCollectExpiredBlockedKeys(m3, t)
                          ELSE CollectExpiredBlockedKeys(m3, t)
       ELSE m3

\* a bucket created empty
NewBucketEmpty(o, t) ==
    [tokens |-> 0, lastRefillTime |-> t, timer |-> t + KeyExpireTime]

\* the bucket _calculateTokens creates for a key that has none
NewBucket(o, t) ==
    [tokens |-> o.capacity, lastRefillTime |-> t, timer |-> t + KeyExpireTime]

\* a last-refill time that stays where it was
LastTimeKept(lastRefillTime, pastSeconds) == lastRefillTime

\* bucket.lastRefillTime + pastSeconds * 1000
LastTime(lastRefillTime, pastSeconds) == lastRefillTime + pastSeconds * 1000

\* less than a second apart, before or after
WithinOneSecondEitherWay(pastTime) == -1000 < pastTime /\ pastTime < 1000

\* pastTime < 1000
WithinOneSecond(pastTime) == pastTime < 1000

\* whole seconds rounded up
PastSecondsCeil(pastTime) == (pastTime + 999) \div 1000

\* Math.floor(pastTime / 1000)
PastSeconds(pastTime) == pastTime \div 1000

\* no clamp
ClampNone(bucketAmount, capacity) == bucketAmount

\* Math.min(bucketAmount, this.capacity)
ClampToCapacity(bucketAmount, capacity) == Min(bucketAmount, capacity)

\* _calculateTokens: [limit, balance], the Maps afterwards, the branch taken
CalculateTokens(o, bs, m, fullTokenKey, requestedTokens, t) ==
    LET chk == IsKeyBlocked(m, fullTokenKey \o "-lock", t)
    IN IF chk.blocked
       THEN [limit |-> 1, balance |-> 0, buckets |-> bs,
             blockedKeys |-> chk.map, path |-> "locked"]
       ELSE IF ~MapHas(bs, fullTokenKey)
       THEN [limit |-> 0, balance |-> o.capacity,
             buckets |-> MapSet(bs, fullTokenKey, NewBucket(o, t)),
             blockedKeys |-> chk.map, path |-> "created"]
       ELSE
         LET bucket == bs[fullTokenKey]
             pastTime == t - bucket.lastRefillTime
             pastSeconds == PastSeconds(pastTime)
             pastInflowQuantity == pastSeconds * o.tokenPerSecond
             refill == ~WithinOneSecond(pastTime)
             amount0 == IF refill
                        THEN bucket.tokens + pastInflowQuantity - requestedTokens
                        ELSE bucket.tokens - requestedTokens
             lastTime == IF refill
                         THEN LastTime(bucket.lastRefillTime, pastSeconds)
                         ELSE bucket.lastRefillTime
             bucketAmount == ClampToCapacity(amount0, o.capacity)
             bs1 == MapSet(bs, fullTokenKey,
                           [bucket EXCEPT !.tokens = bucketAmount,
                                          !.lastRefillTime = lastTime])
         IN IF bucketAmount <= 0
            THEN [limit |-> 1, balance |-> 0, buckets |-> bs1,
                  blockedKeys |-> LockOnDenial(o, chk.map, fullTokenKey, t),
                  path |-> "denied"]
            ELSE [limit |-> 0, balance |-> bucketAmount, buckets |-> bs1,
                  blockedKeys |-> chk.map, path |-> "granted"]

\* one abuse identity per token key, whatever blockKey is
FullBlockedKeyShared(o, tokenKey, blockKey) == o.keyPrefix \o tokenKey

\* blockKey ? this.keyPrefix + blockKey : fullTokenKey (the same in both classes)
FullBlockedKey(o, tokenKey, blockKey) ==
    IF blockKey # "" THEN o.keyPrefix \o blockKey ELSE o.keyPrefix \o tokenKey

\* getToken of the in-memory limiter
LocalGetToken(o, bs, m, tokenKey, blockKey, requestedTokens, t) ==
    LET fullTokenKey == o.keyPrefix \o tokenKey
        fullBlockedKey == FullBlockedKey(o, tokenKey, blockKey)
        chk == IsKeyBlocked(m, fullBlockedKey, t)
    IN IF chk.blocked
       THEN [ret |-> 0, buckets |-> bs, blockedKeys |-> chk.map,
             path |-> "blocked", fullTokenKey |-> fullTokenKey]
       ELSE
         LET m1 == IF o.inMemoryBlockOnConsumed # 0
                   THEN CountConsumed(o, chk.map, fullBlockedKey, t, FALSE)
                   ELSE chk.map
             c == CalculateTokens(o, bs, m1, fullTokenKey, requestedTokens, t)
         IN [ret |-> IF c.limit = 0 THEN c.balance ELSE 0,
             buckets |-> c.buckets, blockedKeys |-> c.blockedKeys,
             path |-> c.path, fullTokenKey |-> fullTokenKey]

----------------------------------------------------------------------------
(* The Redis server and the Lua script of _initScript *)

\* the expiry of a key that has none (what TTL reports for it)
NoExpiry == -1

RedisExists(st, k, serverNow) ==
    MapHas(st, k) /\ (st[k].exp = NoExpiry \/ serverNow < st[k].exp)

\* a write that does not reach the server's keys
RedisSetPXLost(st, k, v, px, serverNow) == st

\* a script whose SET reaches the last-refill keys only
RedisSetPXLastRefillOnly(st, k, v, px, serverNow) ==
    IF EndsWith(k, "-st")
    THEN MapSet(st, k, [val |-> v, exp |-> serverNow + px])
    ELSE st

\* a SET without PX: the key is kept until deleted
RedisSetForever(st, k, v, px, serverNow) == MapSet(st, k, [val |-> v, exp |-> NoExpiry])

RedisSetPX(st, k, v, px, serverNow) == MapSet(st, k, [val |-> v, exp |-> serverNow + px])
RedisExpire(st, serverNow) ==
    MapDeleteAll(st, {k \in DOMAIN st : ~RedisExists(st, k, serverNow)})

\* a marker whose expiry is taken in milliseconds
RedisSetMillisNX(st, k, v, ex, serverNow) ==
    IF RedisExists(st, k, serverNow) THEN st ELSE RedisSetPX(st, k, v, ex, serverNow)

\* redis.call('set', k, v, 'EX', ex, 'NX')
RedisSetEXNX(st, k, v, ex, serverNow) ==
    IF RedisExists(st, k, serverNow) THEN st ELSE RedisSetPX(st, k, v, ex * 1000, serverNow)

ClKey(key) == "{" \o key \o "}"
LockKey(key) == ClKey(key) \o "-lock"
StKey(key) == ClKey(key) \o "-st"

\* a marker that is never looked at
LockValIsOneNever(st, lock_key, serverNow) == FALSE

\* redis.call('get', lock_key) == '1'
LockValIsOne(st, lock_key, serverNow) ==
    RedisExists(st, lock_key, serverNow) /\ st[lock_key].val = 1

\* a new bucket left full
InitialAmountFull(capacity, amount) == capacity

\* local bucket_amount = capacity - amount, for a key that has no bucket
InitialAmount(capacity, amount) == capacity - amount

\* no unit counted however long ago the last refill was
PastInflowUnitQuantityNone(past_time, inflow_unit) == 0

\* math.floor(past_time / inflow_unit)
PastInflowUnitQuantity(past_time, inflow_unit) == past_time \div inflow_unit

\* a last-refill time moved on to the end of the unit under way
ScriptLastTimeNextUnit(last_time, past_inflow_unit_quantity, inflow_unit) == last_time + (past_inflow_unit_quantity + 1) * inflow_unit

\* last_time + past_inflow_unit_quantity * inflow_unit
ScriptLastTime(last_time, past_inflow_unit_quantity, inflow_unit) == last_time + past_inflow_unit_quantity * inflow_unit

\* The script: ret[1], ret[2], the server's keys afterwards, the branch taken.
\* path "error" is arithmetic on a nil balance, which makes eval throw.
\* The lock marker's value '1' is written as the number 1.
Script(st, key, capacity, amount, inflow_quantity_per_unit, inflow_unit, lock_seconds, key_expire_time, current_time, serverNow) ==
    LET lock_key == LockKey(key)
        st_key == StKey(key)
    IN IF LockValIsOne(st, lock_key, serverNow)
       THEN [flag |-> 1, balance |-> -1, store |-> st, path |-> "locked"]
       ELSE IF ~RedisExists(st, st_key, serverNow)
       THEN LET bucket_amount == InitialAmount(capacity, amount)
            IN [flag |-> 0, balance |-> bucket_amount,
                store |-> RedisSetPX(
                            RedisSetPX(st, key, bucket_amount, key_expire_time, serverNow),
                            st_key, current_time, key_expire_time, serverNow),
                path |-> "created"]
       ELSE IF ~RedisExists(st, key, serverNow)
       THEN [flag |-> 0, balance |-> 0, store |-> st, path |-> "error"]
       ELSE
         LET current_value == st[key].val
             last_time0 == st[st_key].val
             past_time == current_time - last_time0
             refill == ~(past_time < inflow_unit)
             past_inflow_unit_quantity == PastInflowUnitQuantity(past_time, inflow_unit)
             last_time == IF refill
                          THEN ScriptLastTime(last_time0, past_inflow_unit_quantity,
                                              inflow_unit)
                          ELSE last_time0
             past_inflow_quantity == past_inflow_unit_quantity * inflow_quantity_per_unit
             amount0 == IF refill
                        THEN current_value + past_inflow_quantity - amount
                        ELSE current_value - amount
             bucket_amount == Min(amount0, capacity)
         IN IF bucket_amount < 0
            THEN [flag |-> 1, balance |-> bucket_amount,
                  store |-> IF lock_seconds > 0
                            THEN RedisSetEXNX(st, lock_key, 1, lock_seconds, serverNow)
                            ELSE st,
                  path |-> "denied"]
            ELSE [flag |-> 0, balance |-> bucket_amount,
                  store |-> IF refill
                            THEN RedisSetPX(
                                   RedisSetPX(st, key, bucket_amount, key_expire_time, serverNow),
                                   st_key, last_time, key_expire_time, serverNow)
                            ELSE RedisSetPX(st, key, bucket_amount, key_expire_time, serverNow),
                  path |-> "granted"]

----------------------------------------------------------------------------
(* RateLimiterTokenBucketRedis *)

\* a guard that rejects nothing
RedisIsKeyBlockedNever(m, key, t) == [blocked |-> FALSE, map |-> m]

\* _isKeyBlocked of the Redis-backed limiter
RedisIsKeyBlocked(m, key, t) ==
    IF ~MapHas(m, key)
    THEN [blocked |-> FALSE, map |-> m]
    ELSE IF NowBefore(t, m[key])
    THEN [blocked |-> TRUE, map |-> m]
    ELSE [blocked |-> FALSE,
          map |-> MapDelete(MapDelete(m, key), key \o ":consumed")]

\* _isRedisReady
IsRedisReady(st) == ~(st # "" /\ st # "ready")

\* The options the constructor gives the insurance limiter
InsuranceOpts(o) ==
    [tokenPerSecond |-> IF o.insuranceLimiterTokenPerSecond # 0
                        THEN o.insuranceLimiterTokenPerSecond
                        ELSE o.tokenPerSecond,
     capacity |-> IF o.insuranceLimiterCapacity # 0
                  THEN o.insuranceLimiterCapacity
                  ELSE o.capacity,
     keyPrefix |-> o.keyPrefix,
     lockDuration |-> 0,
     inMemoryBlockOnConsumed |-> 0,
     inMemoryBlockDuration |-> 0]

----------------------------------------------------------------------------
(* What a returned getToken call did: the value it returned, the branch    *)
(* it took, and the addressed bucket before and after the call.            *)

NoCall ==
    [op |-> "none", via |-> "none", path |-> "none", key |-> "", requested |-> 0,
     ret |-> 0, at |-> 0, had |-> FALSE, before |-> 0, lrtBefore |-> 0,
     hasAfter |-> FALSE, after |-> 0, lrtAfter |-> 0]

\* a call answered by an in-memory limiter (via "local" or "insurance")
LocalCall(via, res, bs, requested, t) ==
    LET key == res.fullTokenKey
        had == MapHas(bs, key)
        has == MapHas(res.buckets, key)
    IN [op |-> "getToken", via |-> via, path |-> res.path, key |-> key,
        requested |-> requested, ret |-> res.ret, at |-> t,
        had |-> had,
        before |-> IF had THEN bs[key].tokens ELSE 0,
        lrtBefore |-> IF had THEN bs[key].lastRefillTime ELSE 0,
        hasAfter |-> has,
        after |-> IF has THEN res.buckets[key].tokens ELSE 0,
        lrtAfter |-> IF has THEN res.buckets[key].lastRefillTime ELSE 0]

\* a call answered by the script: limitTriggered === 0 ? parseFloat(tokenBalance) : 0
ScriptCall(res, st, req, serverNow) ==
    LET key == req.key
        had == RedisExists(st, StKey(key), serverNow)
        hadVal == RedisExists(st, key, serverNow)
        has == RedisExists(res.store, StKey(key), serverNow)
        hasVal == RedisExists(res.store, key, serverNow)
    IN [op |-> "getToken", via |-> "redis", path |-> res.path, key |-> key,
        requested |-> req.amount,
        ret |-> IF res.flag = 0 THEN res.balance ELSE 0,
        at |-> req.time,
        had |-> had,
        before |-> IF hadVal THEN st[key].val ELSE 0,
        lrtBefore |-> IF had THEN st[StKey(key)].val ELSE 0,
        hasAfter |-> has,
        after |-> IF hasVal THEN res.store[key].val ELSE 0,
        lrtAfter |-> IF has THEN res.store[StKey(key)].val ELSE 0]

\* a call that touched no bucket: rejected by the abuse guard, or failing open
PlainCall(via, path, key, requested, ret, t) ==
    [NoCall EXCEPT !.op = "getToken", !.via = via, !.path = path, !.key = key,
                   !.requested = requested, !.ret = ret, !.at = t]

\* the time of the latest denial for insufficient tokens that the limiter
\* answers with a lockout (lockDuration > 0), per bucket key
NoteDenied(d, call, lockDuration) ==
    IF call.path = "denied" /\ lockDuration > 0
    THEN MapSet(d, call.key, call.at)
    ELSE d

\* the getToken calls of a block key that the abuse guard has to count: all
\* of them since the limiter was constructed or since the key's latest abuse
\* lockout was found expired (m is the blockedKeys Map before the call);
\* nothing is noted for a limiter without the guard
NoteCall(c, o, m, fullBlockedKey, t) ==
    IF o.inMemoryBlockOnConsumed = 0
    THEN c
    ELSE IF MapHas(m, fullBlockedKey) /\ m[fullBlockedKey].type = "number"
                                      /\ ~NowBefore(t, m[fullBlockedKey])
    THEN MapSet(c, fullBlockedKey, <<t>>)
    ELSE MapSet(c, fullBlockedKey,
                Append(IF MapHas(c, fullBlockedKey) THEN c[fullBlockedKey] ELSE <<>>, t))

\* The unit consumes the script has granted on a key's bucket in Redis since
\* the bucket was created, kept as long as the bucket has been credited no
\* refill and asked for 0 or 1 token only (res is the script's result on st).
NoteServed(sv, res, st, req, serverNow) ==
    LET key == req.key
        unit == req.amount \in {0, 1}
        refilled == res.store[StKey(key)].val # st[StKey(key)].val
    IN IF res.path = "created"
       THEN IF unit THEN MapSet(sv, key, req.amount) ELSE MapDelete(sv, key)
       ELSE IF res.path = "granted"
       THEN IF unit /\ ~refilled /\ MapHas(sv, key)
            THEN MapSet(sv, key, sv[key] + req.amount)
            ELSE MapDelete(sv, key)
       ELSE sv

\* the calls answered from a bucket with a value above 0, in the order they
\* returned, each with the time t at which it was answered; kept only for the
\* limiters set up with a history
NoteGranted(g, call, t) ==
    IF g.on /\ call.op = "getToken" /\ call.via \in {"local", "redis"} /\ call.ret > 0
    THEN [g EXCEPT !.log = Append(@, [key |-> call.key, at |-> t,
                                      amount |-> call.requested])]
    ELSE g

\* the refill tokens a bucket received since the call that created it, with
\* the last-refill time that call recorded (t0) and the number of denied
\* accesses that had a refill due; kept only for the limiters set up with a
\* ledger.  The tokens an access added are the change of the stored balance
\* plus the tokens it took out (none when the script denies).
NoteCredited(c, call) ==
    IF ~c.on \/ call.op # "getToken" \/ call.via \notin {"local", "redis"}
    THEN c
    ELSE IF call.path = "created"
    THEN [c EXCEPT !.by = MapSet(@, call.key,
                                 [t0 |-> call.lrtAfter, tokens |-> 0, denials |-> 0])]
    ELSE IF call.path \in {"granted", "denied"} /\ MapHas(c.by, call.key)
    THEN LET taken == IF call.via = "redis" /\ call.path = "denied"
                      THEN 0 ELSE call.requested
             due == call.at - call.lrtBefore >= InflowUnit
             e == c.by[call.key]
         IN [c EXCEPT !.by = MapSet(@, call.key,
                 [t0 |-> e.t0,
                  tokens |-> e.tokens + (call.after - call.before + taken),
                  denials |-> e.denials
                                + (IF call.path = "denied" /\ due THEN 1 ELSE 0)])]
    ELSE c

----------------------------------------------------------------------------
(* State machine *)

\* the options a constructor may be given (0 stands for an option left out)
Opts(lockDuration, threshold, insurance, insuranceCapacity) ==
    [tokenPerSecond |-> CHOOSE r \in Rates : TRUE,
     capacity |-> CHOOSE c \in Capacities : TRUE,
     keyPrefix |-> "test",
     lockDuration |-> lockDuration,
     inMemoryBlockOnConsumed |-> threshold,
     inMemoryBlockDuration |-> CHOOSE d \in BlockDurations : TRUE,
     insuranceLimiter |-> insurance,
     insuranceLimiterTokenPerSecond |-> 0,
     insuranceLimiterCapacity |-> insuranceCapacity,
     redisClient |-> TRUE]

\* the limiters under test: the in-memory limiter with and without lockout
\* and abuse guard; the Redis-backed limiter with a lockout, with an
\* insurance limiter of a larger capacity, and with two concurrent callers
Setups ==
    {[backend |-> "local", callers |-> 1, opts |-> Opts(l, t, FALSE, 0)] :
        l \in LockDurations, t \in BlockThresholds}
    \cup
    {[backend |-> "redis", callers |-> 1, opts |-> Opts(1, 0, FALSE, 0)],
     [backend |-> "redis", callers |-> 1, opts |-> Opts(0, 0, TRUE, 4)],
     [backend |-> "redis", callers |-> 2, opts |-> Opts(0, 0, FALSE, 0)]}

\* the guard's Map after one call on each of n other block keys at StartTime
OtherCounters(n) ==
    [k \in {"testother" \o ToString(i) \o ":consumed" : i \in 1..n} |-> ObjVal(1, StartTime)]

\* the constructors: empty Maps, the clock at StartTime (a setup with
\* entries: the limiter after its first calls on that many other block keys)
InitWith(setups) ==
    /\ now = StartTime
    /\ steps = 0
    /\ \E s \in setups : /\ backend = s.backend /\ opts = s.opts /\ callers = s.callers
                         /\ granted = [on |-> "history" \in DOMAIN s, log |-> <<>>]
                         /\ credited = [on |-> "ledger" \in DOMAIN s, by |-> EmptyMap]
                         /\ blockedKeys = IF "entries" \in DOMAIN s /\ s.backend = "local"
                                          THEN OtherCounters(s.entries)
                                          ELSE EmptyMap
                         /\ redisBlockedKeys = IF "entries" \in DOMAIN s /\ s.backend = "redis"
                                               THEN OtherCounters(s.entries)
                                               ELSE EmptyMap
    /\ buckets = EmptyMap
    /\ store = EmptyMap
    /\ inflight = EmptyBag
    /\ last = NoCall
    /\ deniedAt = EmptyMap
    /\ calls = EmptyMap
    /\ served = EmptyMap
    /\ twin = NoCall
    /\ redis = (IF opts.redisClient THEN "client" ELSE "pending")

Init == InitWith(Setups)

\* RateLimiterTokenBucket.getToken(tokenKey, blockKey, requestedTokens)
GetToken(tokenKey, blockKey, requestedTokens) ==
    /\ backend = "local"
    /\ steps < MaxSteps
    /\ LET res == LocalGetToken(opts, buckets, blockedKeys, tokenKey, blockKey,
                                requestedTokens, now)
           call == LocalCall("local", res, buckets, requestedTokens, now)
       IN /\ buckets' = res.buckets
          /\ blockedKeys' = res.blockedKeys
          /\ last' = call
          /\ deniedAt' = NoteDenied(deniedAt, call, opts.lockDuration)
    /\ calls' = NoteCall(calls, opts, blockedKeys,
                         FullBlockedKey(opts, tokenKey, blockKey), now)
    /\ steps' = steps + 1
    /\ granted' = NoteGranted(granted, last', now)
    /\ credited' = NoteCredited(credited, last')
    /\ UNCHANGED <<now, backend, opts, callers, redis, redisBlockedKeys, store, inflight, served,
                   twin>>

\* the setTimeout callback of a bucket: it deletes the bucket once due
BucketTimer(fullTokenKey) ==
    /\ MapHas(buckets, fullTokenKey)
    /\ now >= buckets[fullTokenKey].timer
    /\ buckets' = MapDelete(buckets, fullTokenKey)
    /\ last' = NoCall
    /\ twin' = NoCall
    /\ UNCHANGED <<now, steps, backend, opts, callers, redis, blockedKeys, redisBlockedKeys,
                   store, inflight, deniedAt, calls, served, granted, credited>>

\* a fallback that never asks the insurance limiter
FallbackFailOpen(fullTokenKey, requestedTokens) ==
    /\ last' = PlainCall("failopen", "none", fullTokenKey, requestedTokens, 1, now)
    /\ UNCHANGED <<buckets, blockedKeys, deniedAt>>

\* a fallback that fails closed
FallbackDeny(fullTokenKey, requestedTokens) ==
    /\ last' = PlainCall("failopen", "none", fullTokenKey, requestedTokens, 0, now)
    /\ UNCHANGED <<buckets, blockedKeys, deniedAt>>

\* the catch block and the not-ready branch of the Redis getToken:
\* the insurance limiter's getToken(fullTokenKey), or 1
Fallback(fullTokenKey, requestedTokens) ==
    IF opts.insuranceLimiter
    THEN LET res == LocalGetToken(InsuranceOpts(opts), buckets, blockedKeys,
                                  fullTokenKey, "", 1, now)
             call == LocalCall("insurance", res, buckets, 1, now)
         IN /\ buckets' = res.buckets
            /\ blockedKeys' = res.blockedKeys
            /\ last' = call
            /\ deniedAt' = NoteDenied(deniedAt, call, 0)
    ELSE /\ last' = PlainCall("failopen", "none", fullTokenKey, requestedTokens, 1, now)
         /\ UNCHANGED <<buckets, blockedKeys, deniedAt>>

\* RateLimiterTokenBucketRedis.getToken up to its await: the abuse guard,
\* then redis.eval is sent, or the call falls back when Redis is not ready.
\* status is redis.status as this call reads it: the client changes it
\* asynchronously, so every call may find either value.  Without a client
\* this.redis.status throws a TypeError inside the try: the catch block.
RedisGetToken(tokenKey, blockKey, requestedTokens, status) ==
    /\ backend = "redis"
    /\ steps < MaxSteps
    /\ steps' = steps + 1
    /\ LET fullTokenKey == opts.keyPrefix \o tokenKey
           fullBlockedKey == FullBlockedKey(opts, tokenKey, blockKey)
           chk == RedisIsKeyBlocked(redisBlockedKeys, fullBlockedKey, now)
       IN IF chk.blocked
          THEN /\ redisBlockedKeys' = chk.map
               /\ last' = PlainCall("guard", "blocked", fullTokenKey,
                                    requestedTokens, 0, now)
               /\ UNCHANGED <<buckets, blockedKeys, inflight, deniedAt>>
          ELSE /\ redisBlockedKeys' =
                      IF opts.inMemoryBlockOnConsumed # 0
                      THEN CountConsumed(opts, chk.map, fullBlockedKey, now, TRUE)
                      ELSE chk.map
               /\ IF redis = "client" /\ IsRedisReady(status)
                  THEN /\ BagCardinality(inflight) < callers
                       /\ inflight' = inflight (+) SetToBag({[key |-> fullTokenKey,
                                                             amount |-> requestedTokens,
                                                             time |-> now]})
                       /\ last' = NoCall
                       /\ UNCHANGED <<buckets, blockedKeys, deniedAt>>
                  ELSE /\ Fallback(fullTokenKey, requestedTokens)
                       /\ UNCHANGED inflight
    /\ calls' = NoteCall(calls, opts, redisBlockedKeys,
                         FullBlockedKey(opts, tokenKey, blockKey), now)
    /\ granted' = NoteGranted(granted, last', now)
    /\ credited' = NoteCredited(credited, last')
    /\ UNCHANGED <<now, backend, opts, callers, redis, store, served, twin>>

\* the arguments getToken passes to redis.eval
RunScript(req) ==
    Script(store, req.key, opts.capacity, req.amount, opts.tokenPerSecond,
           InflowUnit, opts.lockDuration, KeyExpireTime, req.time, now)

\* the server runs the script of one pending eval and getToken returns
RedisEval(req) ==
    /\ BagIn(req, inflight)
    /\ LET res == RunScript(req)
       IN IF res.path = "error"
          THEN /\ Fallback(req.key, req.amount)
               /\ UNCHANGED <<store, served>>
          ELSE LET call == ScriptCall(res, store, req, now)
               IN /\ store' = res.store
                  /\ served' = NoteServed(served, res, store, req, now)
                  /\ last' = call
                  /\ deniedAt' = NoteDenied(deniedAt, call, opts.lockDuration)
                  /\ UNCHANGED <<buckets, blockedKeys>>
    /\ inflight' = inflight (-) SetToBag({req})
    /\ granted' = NoteGranted(granted, last', now)
    /\ credited' = NoteCredited(credited, last')
    /\ UNCHANGED <<now, steps, backend, opts, callers, redis, redisBlockedKeys, calls, twin>>

\* a pending eval rejects (connection lost, with or without the script
\* having run on the server): the catch block of getToken
RedisEvalThrows(req, ran) ==
    /\ BagIn(req, inflight)
    /\ LET res == RunScript(req)
       IN /\ store' = IF ran /\ res.path # "error" THEN res.store ELSE store
          /\ served' = IF ran /\ res.path # "error"
                       THEN NoteServed(served, res, store, req, now)
                       ELSE served
          /\ credited' = IF ran /\ res.path # "error"
                         THEN NoteCredited(credited, ScriptCall(res, store, req, now))
                         ELSE credited
          /\ Fallback(req.key, req.amount)
    /\ inflight' = inflight (-) SetToBag({req})
    /\ granted' = NoteGranted(granted, last', now)
    /\ UNCHANGED <<now, steps, backend, opts, callers, redis, redisBlockedKeys, calls, twin>>

\* time passes; the server drops the keys whose expiry is reached
AdvanceClock(d) ==
    /\ steps < MaxSteps
    /\ steps' = steps + 1
    /\ now + d \in ClockReadings
    /\ now' = now + d
    /\ store' = RedisExpire(store, now + d)
    /\ served' = MapDeleteAll(served, {k \in DOMAIN served :
                                          ~RedisExists(store, StKey(k), now + d)})
    /\ last' = NoCall
    /\ twin' = NoCall
    /\ UNCHANGED <<backend, opts, callers, redis, buckets, blockedKeys, redisBlockedKeys,
                   inflight, deniedAt, calls, granted, credited>>

\* the system clock is set back (Date.now() is not monotonic); the in-memory
\* limiter keeps no state outside the process, so only its clock is moved
ClockSetBack(d) ==
    /\ backend = "local"
    /\ steps < MaxSteps
    /\ steps' = steps + 1
    /\ now - d \in ClockReadings
    /\ now' = now - d
    /\ last' = NoCall
    /\ twin' = NoCall
    /\ UNCHANGED <<backend, opts, callers, redis, buckets, blockedKeys, redisBlockedKeys,
                   store, inflight, deniedAt, calls, served, granted, credited>>

\* the constructor's import('ioredis') settles: this.redis = new Redis(...)
\* when the module is found, a console.warn when it is not
ImportSettles(found) ==
    /\ redis = "pending"
    /\ redis' = (IF found THEN "client" ELSE "undefined")
    /\ last' = NoCall
    /\ twin' = NoCall
    /\ UNCHANGED <<now, steps, backend, opts, callers, buckets, blockedKeys,
                   redisBlockedKeys, store, inflight, deniedAt, calls, served, granted, credited>>

Next ==
    \/ \E k \in TokenKeys, b \in BlockKeys, r \in Amounts : GetToken(k, b, r)
    \/ \E k \in DOMAIN buckets : BucketTimer(k)
    \/ \E k \in TokenKeys, b \in BlockKeys, r \in Amounts, s \in Statuses :
          RedisGetToken(k, b, r, s)
    \/ \E req \in BagToSet(inflight) : RedisEval(req)
    \/ \E req \in BagToSet(inflight), ran \in BOOLEAN : RedisEvalThrows(req, ran)
    \/ \E d \in Deltas : AdvanceClock(d)

Spec == Init /\ [][Next]_vars

\* The limiters with the abuse guard on, called for one token at a time:
\* the in-memory limiter with and without lockDuration, the Redis-backed
\* limiter failing open and with an insurance limiter
GuardAmounts == {1}

GuardSetups ==
    {[backend |-> "local", callers |-> 1, opts |-> Opts(l, 2, FALSE, 0)] :
        l \in LockDurations}
    \cup
    {[backend |-> "redis", callers |-> 1, opts |-> Opts(0, 2, FALSE, 0)],
     [backend |-> "redis", callers |-> 1, opts |-> Opts(0, 2, TRUE, 4)]}

GuardNext ==
    \/ \E k \in TokenKeys, b \in BlockKeys, r \in GuardAmounts : GetToken(k, b, r)
    \/ \E k \in DOMAIN buckets : BucketTimer(k)
    \/ \E k \in TokenKeys, b \in BlockKeys, r \in GuardAmounts, s \in Statuses :
          RedisGetToken(k, b, r, s)
    \/ \E req \in BagToSet(inflight) : RedisEval(req)
    \/ \E req \in BagToSet(inflight), ran \in BOOLEAN : RedisEvalThrows(req, ran)
    \/ \E d \in Deltas : AdvanceClock(d)

GuardSpec == InitWith(GuardSetups) /\ [][GuardNext]_vars

\* getToken of the Redis-backed limiter with Redis ready and the eval answered
\* before anything else happens (a caller that awaits each call): the value
\* returned, the Map and the server's keys afterwards
RedisGetTokenAwaited(o, m, st, tokenKey, blockKey, requestedTokens, t) ==
    LET fullTokenKey == o.keyPrefix \o tokenKey
        fullBlockedKey == FullBlockedKey(o, tokenKey, blockKey)
        chk == RedisIsKeyBlocked(m, fullBlockedKey, t)
        req == [key |-> fullTokenKey, amount |-> requestedTokens, time |-> t]
        res == Script(st, fullTokenKey, o.capacity, requestedTokens, o.tokenPerSecond,
                      InflowUnit, o.lockDuration, KeyExpireTime, t, t)
    IN IF chk.blocked
       THEN [blockedKeys |-> chk.map, store |-> st, ran |-> FALSE, res |-> res, req |-> req,
             call |-> PlainCall("guard", "blocked", fullTokenKey, requestedTokens, 0, t)]
       ELSE [blockedKeys |-> IF o.inMemoryBlockOnConsumed # 0
                             THEN CountConsumed(o, chk.map, fullBlockedKey, t, TRUE)
                             ELSE chk.map,
             store |-> IF res.path = "error" THEN st ELSE res.store,
             ran |-> res.path # "error", res |-> res, req |-> req,
             call |-> IF res.path = "error"
                      THEN PlainCall("failopen", "none", fullTokenKey, requestedTokens, 1, t)
                      ELSE ScriptCall(res, st, req, t)]

\* one getToken(tokenKey, blockKey, requestedTokens) made at the same clock
\* reading on an in-memory limiter and on a Redis-backed limiter built with
\* the same options
BothGetToken(tokenKey, blockKey, requestedTokens) ==
    /\ backend = "both"
    /\ steps < MaxSteps
    /\ steps' = steps + 1
    /\ LET res == LocalGetToken(opts, buckets, blockedKeys, tokenKey, blockKey,
                                requestedTokens, now)
           call == LocalCall("local", res, buckets, requestedTokens, now)
           red == RedisGetTokenAwaited(opts, redisBlockedKeys, store, tokenKey, blockKey,
                                       requestedTokens, now)
       IN /\ buckets' = res.buckets
          /\ blockedKeys' = res.blockedKeys
          /\ last' = call
          /\ deniedAt' = NoteDenied(deniedAt, call, opts.lockDuration)
          /\ redisBlockedKeys' = red.blockedKeys
          /\ store' = red.store
          /\ twin' = red.call
          /\ served' = IF red.ran THEN NoteServed(served, red.res, store, red.req, now)
                                  ELSE served
    /\ calls' = NoteCall(calls, opts, blockedKeys,
                         FullBlockedKey(opts, tokenKey, blockKey), now)
    /\ granted' = NoteGranted(granted, last', now)
    /\ credited' = NoteCredited(credited, last')
    /\ UNCHANGED <<now, backend, opts, callers, redis, inflight>>

\* the two limiters side by side: with and without lockDuration, with and
\* without the abuse guard, no insurance limiter
BothSetups ==
    {[backend |-> "both", callers |-> 1, opts |-> Opts(l, t, FALSE, 0)] :
        l \in LockDurations, t \in BlockThresholds}

BothNext ==
    \/ \E k \in TokenKeys, b \in BlockKeys, r \in Amounts : BothGetToken(k, b, r)
    \/ \E k \in DOMAIN buckets : BucketTimer(k)
    \/ \E d \in Deltas : AdvanceClock(d)

BothSpec == InitWith(BothSetups) /\ [][BothNext]_vars

\* Redis-backed limiters constructed without opts.redisClient, with and
\* without an insurance limiter
NoClientSetups ==
    {[backend |-> "redis", callers |-> 1,
      opts |-> [Opts(0, 0, i, 0) EXCEPT !.redisClient = FALSE]] : i \in BOOLEAN}

NoClientNext ==
    \/ \E found \in BOOLEAN : ImportSettles(found)
    \/ \E k \in DOMAIN buckets : BucketTimer(k)
    \/ \E k \in TokenKeys, b \in BlockKeys, r \in Amounts, s \in Statuses :
          RedisGetToken(k, b, r, s)
    \/ \E req \in BagToSet(inflight) : RedisEval(req)
    \/ \E req \in BagToSet(inflight), ran \in BOOLEAN : RedisEvalThrows(req, ran)
    \/ \E d \in Deltas : AdvanceClock(d)

NoClientSpec == InitWith(NoClientSetups) /\ [][NoClientNext]_vars

\* the Redis-backed limiter with a lockout and two calls awaiting eval at once
LockSetups ==
    {[backend |-> "redis", callers |-> 2, opts |-> Opts(l, 0, FALSE, 0)] :
        l \in LockDurations \ {0}}

LockNext ==
    \/ \E k \in TokenKeys, b \in BlockKeys, r \in Amounts, s \in Statuses :
          RedisGetToken(k, b, r, s)
    \/ \E req \in BagToSet(inflight) : RedisEval(req)
    \/ \E req \in BagToSet(inflight), ran \in BOOLEAN : RedisEvalThrows(req, ran)
    \/ \E d \in Deltas : AdvanceClock(d)

LockSpec == InitWith(LockSetups) /\ [][LockNext]_vars

\* the two limiters without lockout and abuse guard, asked for amounts within
\* the capacity, with the history of their grants kept
BurstAmounts == {1, 2}

BurstSetups ==
    {[backend |-> b, callers |-> 1, opts |-> Opts(0, 0, FALSE, 0), history |-> TRUE] :
        b \in {"local", "redis"}}

BurstNext ==
    \/ \E k \in TokenKeys, b \in BlockKeys, r \in BurstAmounts : GetToken(k, b, r)
    \/ \E k \in DOMAIN buckets : BucketTimer(k)
    \/ \E k \in TokenKeys, b \in BlockKeys, r \in BurstAmounts, s \in Statuses :
          RedisGetToken(k, b, r, s)
    \/ \E req \in BagToSet(inflight) : RedisEval(req)
    \/ \E req \in BagToSet(inflight), ran \in BOOLEAN : RedisEvalThrows(req, ran)
    \/ \E d \in Deltas : AdvanceClock(d)

BurstSpec == InitWith(BurstSetups) /\ [][BurstNext]_vars

\* the two limiters without lockout and abuse guard, the Redis-backed one
\* with two calls pending at once, with the ledger of their refills kept
LedgerSetups ==
    {[backend |-> "local", callers |-> 1, opts |-> Opts(0, 0, FALSE, 0), ledger |-> TRUE],
     [backend |-> "redis", callers |-> 2, opts |-> Opts(0, 0, FALSE, 0), ledger |-> TRUE]}

LedgerSpec == InitWith(LedgerSetups) /\ [][Next]_vars

\* callers whose clock readings do not arrive in order: the in-memory limiter
\* under a clock that can be set back, the Redis-backed limiter with two
\* calls pending at once
SkewSetups ==
    {[backend |-> "local", callers |-> 1, opts |-> Opts(0, 0, FALSE, 0)],
     [backend |-> "redis", callers |-> 2, opts |-> Opts(0, 0, FALSE, 0)]}

SkewNext ==
    \/ Next
    \/ \E d \in Deltas : ClockSetBack(d)

SkewSpec == InitWith(SkewSetups) /\ [][SkewNext]_vars

----------------------------------------------------------------------------
TypeOK ==
    /\ now >= StartTime
    /\ steps \in 0..MaxSteps
    /\ BagCardinality(inflight) <= callers

----------------------------------------------------------------------------
(* Properties *)

Returned == last.op = "getToken"

\* the capacity of the limiter whose bucket a call addressed
CapacityOf(via) ==
    IF via = "insurance" THEN InsuranceOpts(opts).capacity ELSE opts.capacity

\* the capacity of the in-memory limiter that owns the Map buckets
LocalCapacity ==
    IF backend = "local" THEN opts.capacity ELSE InsuranceOpts(opts).capacity

\* the refill rate of the limiter whose bucket a call addressed
RateOf(via) ==
    IF via = "insurance" THEN InsuranceOpts(opts).tokenPerSecond
                         ELSE opts.tokenPerSecond

\* whole refill units between a bucket's last refill and a call on it
UnitsElapsed(call) ==
    IF call.at - call.lrtBefore < InflowUnit
    THEN 0
    ELSE (call.at - call.lrtBefore) \div InflowUnit

StoredBalancesBounded ==
    /\ \A k \in DOMAIN buckets : buckets[k].tokens <= LocalCapacity
    /\ \A k \in TokenKeys :
          RedisExists(store, opts.keyPrefix \o k, now)
              => store[opts.keyPrefix \o k].val <= opts.capacity

\* C1 as stated: every stored balance is at most the capacity of its bucket
\* and every value getToken returns is at most the capacity of the limiter
\* that was called.
C1_ReturnAtMostCapacity ==
    /\ StoredBalancesBounded
    /\ Returned => last.ret <= opts.capacity

\* C1 amended: every stored balance is at most the capacity of its bucket,
\* and every value getToken returns is at most the capacity of the limiter
\* that answered: the called limiter's, or the insurance limiter's own
\* capacity when the Redis-backed limiter falls back to it.
C1_BalanceAtMostCapacity ==
    /\ StoredBalancesBounded
    /\ Returned => last.ret <= CapacityOf(last.via)

\* a refill that the clamp cut: the bucket is back at capacity, not above
C1_Witness ==
    /\ Returned
    /\ last.path = "granted"
    /\ UnitsElapsed(last) >= 1
    /\ last.before + UnitsElapsed(last) * RateOf(last.via) - last.requested
          > CapacityOf(last.via)
    /\ last.ret = CapacityOf(last.via)

\* C2: every stored balance, of the in-memory buckets and of the Redis
\* token keys, is at least 0.
C2_StoredBalanceNonNegative ==
    /\ \A k \in DOMAIN buckets : buckets[k].tokens >= 0
    /\ \A k \in TokenKeys :
          RedisExists(store, opts.keyPrefix \o k, now)
              => store[opts.keyPrefix \o k].val >= 0

\* C3: a call denied for insufficient tokens leaves the stored balance no
\* lower than it was before the call.
C3_DeniedDeductsNothing ==
    (Returned /\ last.path = "denied") => last.after >= last.before

\* C4 as stated: the call that creates a key's bucket returns
\* capacity - requestedTokens, and that is the balance stored.
C4_FirstConsumeDeducts ==
    (Returned /\ last.path = "created")
        => /\ last.ret = CapacityOf(last.via) - last.requested
           /\ last.after = last.ret

\* C4 amended: the call that creates a key's bucket returns
\* capacity - requestedTokens and stores it in the Redis-backed limiter;
\* in the in-memory limiter it returns capacity and stores capacity,
\* whatever requestedTokens is.
C4_FirstConsume ==
    (Returned /\ last.path = "created")
        => /\ last.hasAfter
           /\ last.after = last.ret
           /\ last.ret = IF last.via = "redis"
                         THEN opts.capacity - last.requested
                         ELSE CapacityOf(last.via)

\* a first consume of at least one token on the in-memory limiter
C4_Witness ==
    /\ Returned
    /\ last.path = "created"
    /\ last.via = "local"
    /\ last.requested >= 1

\* C5: in the in-memory limiter, a getToken that finds no bucket for its key
\* (and is not rejected by a lockout or the abuse guard before that) returns
\* capacity and creates the bucket with tokens = capacity and
\* lastRefillTime = now.
C5_LocalBucketCreatedFull ==
    (Returned /\ last.via = "local" /\ last.path # "blocked"
              /\ last.path # "locked" /\ ~last.had)
        => /\ last.ret = opts.capacity
           /\ last.hasAfter
           /\ last.after = opts.capacity
           /\ last.lrtAfter = last.at
           /\ last.at = now

\* a bucket created by a call that took place after the clock had advanced
C5_Witness ==
    /\ Returned
    /\ last.via = "local"
    /\ last.path = "created"
    /\ last.at > StartTime
    /\ last.requested >= 1

\* C6: a unit consume on a bucket whose balance is not negative, with no
\* refill due, no lockout and no abuse block, returns and stores the previous
\* balance minus 1 when granted, every granted or creating call returns the
\* balance it stores, and no returned or stored balance is below 0.
C6_UnitConsumesDecreaseByOne ==
    (Returned /\ last.via \in {"local", "redis"} /\ last.requested = 1
              /\ last.path \in {"created", "granted", "denied"}
              /\ UnitsElapsed(last) = 0
              /\ (last.had => last.before >= 0))
        => /\ last.path = "granted"
                => last.ret = last.before - 1 /\ last.after = last.before - 1
           /\ last.path = "created" => last.after = last.ret
           /\ last.ret >= 0
           /\ last.hasAfter => last.after >= 0

\* C7: in the in-memory limiter a granted getToken(r) on a bucket of balance
\* b, k >= 1 whole seconds after its last refill, returns
\* min(capacity, b + k * tokenPerSecond - r).
C7_LocalRefill ==
    (Returned /\ last.via = "local" /\ last.path = "granted"
              /\ UnitsElapsed(last) >= 1)
        => last.ret = Min(opts.capacity,
                          last.before + UnitsElapsed(last) * opts.tokenPerSecond
                              - last.requested)

\* a refill that stays below capacity (3 + 2 - 1 = 4 in the example)
C7_Witness ==
    /\ Returned
    /\ last.via = "local"
    /\ last.path = "granted"
    /\ UnitsElapsed(last) >= 1
    /\ last.requested >= 1
    /\ last.ret < opts.capacity
    /\ last.ret = last.before + UnitsElapsed(last) * opts.tokenPerSecond
                      - last.requested

\* a call that left the stored balance lower than it found it
Lowered(call) ==
    /\ call.hasAfter
    /\ call.after < (IF call.had THEN call.before ELSE CapacityOf(call.via))

\* C8: for requestedTokens >= 1 getToken returns 0 exactly when the request
\* was denied: a call that lowered the balance returns more than 0, and a
\* call that returns 0 was denied.
C8_ZeroIffDenied ==
    (Returned /\ last.requested >= 1)
        => /\ Lowered(last) => last.ret > 0
           /\ last.ret = 0 <=> last.path \in {"denied", "locked", "blocked"}

\* C9: getToken never returns a negative number.
C9_ReturnNonNegative ==
    Returned => last.ret >= 0

\* C10: in the in-memory limiter with lockDuration > 0, a getToken on a key
\* issued less than lockDuration seconds after a denial of that key for
\* insufficient tokens returns 0 and leaves every bucket unchanged.
C10_LockoutHolds ==
    [][(/\ backend = "local"
        /\ last'.op = "getToken"
        /\ steps' = steps + 1
        /\ MapHas(deniedAt, last'.key)
        /\ now < deniedAt[last'.key] + opts.lockDuration * 1000)
          => (last'.ret = 0 /\ buckets' = buckets)]_vars

\* a call rejected during the lockout although the refill then due would
\* have let it through
C10_Witness ==
    /\ Returned
    /\ last.via = "local"
    /\ last.path \in {"locked", "blocked"}
    /\ MapHas(deniedAt, last.key)
    /\ last.at > deniedAt[last.key]
    /\ last.at < deniedAt[last.key] + opts.lockDuration * 1000
    /\ MapHas(buckets, last.key)
    /\ last.at - buckets[last.key].lastRefillTime >= 1000
    /\ buckets[last.key].tokens
         + PastSeconds(last.at - buckets[last.key].lastRefillTime)
             * opts.tokenPerSecond - last.requested > 0

\* the lockDuration of the in-memory limiter that owns the Map blockedKeys
LocalLockDuration ==
    IF backend = "local" THEN opts.lockDuration ELSE InsuranceOpts(opts).lockDuration

\* what the bucket arithmetic leaves in a bucket of balance b after a call
\* for r tokens, k whole refill units after the bucket's last refill
Refilled(b, k, rate, capacity, r) == Min(capacity, b + k * rate - r)

\* C11: in an in-memory limiter whose lockDuration is 0 or unset, no
\* '<key>-lock' entry is ever in blockedKeys, no call is answered by a
\* lockout, and every call on an existing bucket that the abuse guard lets
\* through stores min(capacity, balance + refill - requested) and returns it
\* when it is above 0 and 0 otherwise, also right after a denial.
C11_NoLockWithoutLockDuration ==
    LocalLockDuration = 0 =>
        /\ \A k \in DOMAIN blockedKeys : ~EndsWith(k, "-lock")
        /\ (Returned /\ last.via \in {"local", "insurance"} /\ last.path # "blocked")
              => /\ last.path # "locked"
                 /\ last.had =>
                      LET v == Refilled(last.before, UnitsElapsed(last), RateOf(last.via),
                                        CapacityOf(last.via), last.requested)
                      IN /\ last.hasAfter /\ last.after = v
                         /\ last.ret = IF v > 0 THEN v ELSE 0

\* a bucket left without tokens by a denial grants the next call as soon as
\* the refill covers it, in a limiter without lockDuration
C11_Witness ==
    /\ backend = "local"
    /\ opts.lockDuration = 0
    /\ Returned
    /\ last.had
    /\ last.before <= 0
    /\ last.path = "granted"
    /\ last.ret > 0

\* the step is a getToken(k, b, r) call on the limiter under test, up to its
\* return or, in the Redis-backed limiter, up to its await
GuardedCall(k, b, r) ==
    \/ GetToken(k, b, r)
    \/ \E s \in Statuses : RedisGetToken(k, b, r, s)

\* the abuse guard is configured
GuardOn == opts.inMemoryBlockOnConsumed # 0

\* the Map blockedKeys of the limiter under test
GuardMap == IF backend = "local" THEN blockedKeys ELSE redisBlockedKeys

\* the block key b is locked out by the abuse guard at time t
LockedOut(m, fb, t) == MapHas(m, fb) /\ NowBefore(t, m[fb])

\* C12: with the abuse guard on, threshold N, a getToken call that is the
\* (N+1)-th of its block key within 60 s of the first returns 0 at once, and
\* so does every later call of the key until inMemoryBlockDuration seconds
\* have passed since that (N+1)-th call.
C12_RejectedAboveThreshold ==
    [][\A k \in TokenKeys, b \in BlockKeys, r \in Amounts :
          (GuardOn /\ GuardedCall(k, b, r)) =>
              LET h == calls'[FullBlockedKey(opts, k, b)]
                  n == opts.inMemoryBlockOnConsumed
              IN (/\ Len(h) > n
                  /\ h[n + 1] - h[1] < WindowMs
                  /\ now < h[n + 1] + opts.inMemoryBlockDuration * 1000)
                    => (last'.op = "getToken" /\ last'.ret = 0)]_vars

\* C13: with the abuse guard on, threshold N, whenever the latest N+1 calls
\* of a block key (counted since its latest lockout ended) lie within one
\* minute, the key is locked out when the call returns, for at most
\* inMemoryBlockDuration seconds from then (unless the call was itself
\* turned away by the bucket's own lockout); and a call of a key that is
\* locked out sends nothing to Redis.
C13_LockedOutInEveryWindow ==
    [][\A k \in TokenKeys, b \in BlockKeys, r \in Amounts :
          (GuardOn /\ GuardedCall(k, b, r)) =>
              LET fb == FullBlockedKey(opts, k, b)
                  h == calls'[fb]
                  n == opts.inMemoryBlockOnConsumed
                  len == Len(h)
              IN /\ (len > n /\ h[len] - h[len - n] < WindowMs)
                       => \/ /\ LockedOut(GuardMap', fb, now)
                             /\ GuardMap'[fb].val
                                   <= now + opts.inMemoryBlockDuration * 1000
                          \/ last'.path = "blocked"
                 /\ LockedOut(GuardMap, fb, now) => inflight' = inflight]_vars

\* the abuse lockout of block key fb is recorded and has run out at time t
LockoutElapsed(m, fb, t) == MapHas(m, fb) /\ m[fb].type = "number" /\ ~(t < m[fb].val)

GuardEntries(m, fb) ==
    [k \in {fb, fb \o ":consumed"} \cap DOMAIN m |-> m[k]]

C16_GuardFirst ==
    [][\A k \in TokenKeys, b \in BlockKeys, r \in GuardAmounts, s \in Statuses :
          (/\ LockedOut(redisBlockedKeys, FullBlockedKey(opts, k, b), now)
           /\ RedisGetToken(k, b, r, s)) =>
              /\ last'.op = "getToken"
              /\ last'.via = "guard"
              /\ last'.ret = 0
              /\ inflight' = inflight
              /\ buckets' = buckets
              /\ blockedKeys' = blockedKeys
              /\ store' = store
              /\ redisBlockedKeys' = redisBlockedKeys]_vars

\* a call rejected by the guard in a limiter whose insurance limiter has
\* answered before
C16_Witness ==
    /\ backend = "redis"
    /\ opts.insuranceLimiter
    /\ Returned
    /\ last.via = "guard"
    /\ last.ret = 0
    /\ buckets # EmptyMap

\* the call was answered by the insurance limiter's getToken(fullTokenKey):
\* one token taken from the bucket bs holds for that key, or a full bucket
InsuranceAnswer(call, bs, fullTokenKey, t) ==
    LET io == InsuranceOpts(opts)
        ik == io.keyPrefix \o fullTokenKey
    IN /\ call.op = "getToken"
       /\ call.via = "insurance"
       /\ call.key = ik
       /\ IF ~MapHas(bs, ik)
          THEN call.ret = io.capacity
          ELSE LET k == IF t - bs[ik].lastRefillTime < InflowUnit
                        THEN 0
                        ELSE (t - bs[ik].lastRefillTime) \div InflowUnit
                   v == Refilled(bs[ik].tokens, k, io.tokenPerSecond, io.capacity, 1)
               IN call.ret = IF v > 0 THEN v ELSE 0

\* C17: with insuranceLimiter enabled, a getToken call that the guard lets
\* through and that finds redis.status not 'ready', or whose redis.eval
\* rejects (with or without the script having run, or on a script error),
\* returns what the insurance limiter computes from its own bucket of that
\* key, its own capacity and its own rate; the keys held by Redis play no part.
C17_InsuranceFallback ==
    [][opts.insuranceLimiter =>
          /\ \A k \in TokenKeys, b \in BlockKeys, r \in Amounts, s \in Statuses :
                (/\ ~IsRedisReady(s)
                 /\ ~LockedOut(redisBlockedKeys, FullBlockedKey(opts, k, b), now)
                 /\ RedisGetToken(k, b, r, s))
                    => InsuranceAnswer(last', buckets, opts.keyPrefix \o k, now)
          /\ \A req \in BagToSet(inflight) :
                /\ \A ran \in BOOLEAN :
                      RedisEvalThrows(req, ran)
                          => InsuranceAnswer(last', buckets, req.key, now)
                /\ (RunScript(req).path = "error" /\ RedisEval(req))
                      => InsuranceAnswer(last', buckets, req.key, now)]_vars

\* the insurance limiter answers from a balance of its own while Redis
\* holds another balance for the key
C17_Witness ==
    /\ backend = "redis"
    /\ opts.insuranceLimiter
    /\ Returned
    /\ last.via = "insurance"
    /\ last.had
    /\ last.path = "granted"
    /\ \E k \in TokenKeys :
          /\ RedisExists(store, opts.keyPrefix \o k, now)
          /\ store[opts.keyPrefix \o k].val # last.after

\* the call failed open: it returned 1 and no in-memory Map changed
FailedOpen(call, r) ==
    /\ call.op = "getToken"
    /\ call.via = "failopen"
    /\ call.requested = r
    /\ call.ret = 1

\* C18 as stated: without insuranceLimiter, a getToken call that the guard
\* lets through and that finds redis.status not 'ready', or whose redis.eval
\* rejects, returns exactly 1 whatever the key and requestedTokens, and
\* changes no bucket, in memory or in Redis.
C18_FailOpenChangesNothing ==
    [][~opts.insuranceLimiter =>
          /\ \A k \in TokenKeys, b \in BlockKeys, r \in Amounts, s \in Statuses :
                (/\ ~IsRedisReady(s)
                 /\ ~LockedOut(redisBlockedKeys, FullBlockedKey(opts, k, b), now)
                 /\ RedisGetToken(k, b, r, s))
                    => /\ FailedOpen(last', r)
                       /\ buckets' = buckets /\ blockedKeys' = blockedKeys
                       /\ store' = store
          /\ \A req \in BagToSet(inflight) :
                (\/ \E ran \in BOOLEAN : RedisEvalThrows(req, ran)
                 \/ RunScript(req).path = "error" /\ RedisEval(req))
                    => /\ FailedOpen(last', req.amount)
                       /\ buckets' = buckets /\ blockedKeys' = blockedKeys
                       /\ store' = store]_vars

\* C18 amended: such a call returns exactly 1 and changes no in-memory
\* bucket or lockout; the keys in Redis are unchanged when redis.status was
\* not 'ready', and after a rejected redis.eval they are either unchanged or
\* as the script left them, when the server ran it before the call failed.
C18_FailOpen ==
    [][~opts.insuranceLimiter =>
          /\ \A k \in TokenKeys, b \in BlockKeys, r \in Amounts, s \in Statuses :
                (/\ ~IsRedisReady(s)
                 /\ ~LockedOut(redisBlockedKeys, FullBlockedKey(opts, k, b), now)
                 /\ RedisGetToken(k, b, r, s))
                    => /\ FailedOpen(last', r)
                       /\ buckets' = buckets /\ blockedKeys' = blockedKeys
                       /\ store' = store
          /\ \A req \in BagToSet(inflight) :
                (\/ \E ran \in BOOLEAN : RedisEvalThrows(req, ran)
                 \/ RunScript(req).path = "error" /\ RedisEval(req))
                    => /\ FailedOpen(last', req.amount)
                       /\ buckets' = buckets /\ blockedKeys' = blockedKeys
                       /\ store' \in {store, RunScript(req).store}]_vars

\* a request for more than the capacity fails open with 1 while Redis holds
\* a bucket for some key
C18_Witness ==
    /\ backend = "redis"
    /\ ~opts.insuranceLimiter
    /\ Returned
    /\ last.via = "failopen"
    /\ last.ret = 1
    /\ last.requested > opts.capacity
    /\ store # EmptyMap

\* C19: with any number of getToken calls awaiting redis.eval at once, the
\* script runs one after the other, each on the keys the run before it left:
\* a run that grants stores and reports the balance it found (plus the
\* refill due) less its own tokens, a run that creates the bucket stores and
\* reports capacity less its tokens, a run that denies stores nothing; and on
\* a bucket created and then asked for one token at a time with no refill the
\* script grants at most capacity unit consumes, the balance being capacity
\* less the number granted.
C19_ScriptRunsSerially ==
    /\ \A key \in DOMAIN served :
          /\ served[key] <= opts.capacity
          /\ RedisExists(store, key, now) => store[key].val = opts.capacity - served[key]
    /\ (Returned /\ last.via = "redis") =>
          /\ last.path = "created" =>
                /\ ~last.had
                /\ last.after = opts.capacity - last.requested
                /\ last.ret = last.after
          /\ last.path = "granted" =>
                /\ last.after = Refilled(last.before, UnitsElapsed(last),
                                         opts.tokenPerSecond, opts.capacity, last.requested)
                /\ last.ret = last.after
          /\ last.path \in {"denied", "locked"} =>
                /\ last.after = last.before
                /\ last.lrtAfter = last.lrtBefore

\* capacity unit consumes granted on one bucket with no refill, the latest
\* one returning while another call's eval is still pending
C19_Witness ==
    /\ backend = "redis"
    /\ callers > 1
    /\ Returned
    /\ last.via = "redis"
    /\ last.path = "granted"
    /\ last.requested = 1
    /\ MapHas(served, last.key)
    /\ served[last.key] = opts.capacity
    /\ BagCardinality(inflight) >= 1

\* C20: a getToken call with requestedTokens = 0 that reaches the bucket (it
\* is not answered by the abuse guard, by a lockout or by a fallback) is never
\* a denial, leaves the balance as it was apart from the refill that was due,
\* and returns that balance.
C20_ZeroRequestReadsBalance ==
    (/\ Returned
     /\ last.requested = 0
     /\ last.via \in {"local", "redis"}
     /\ last.path \in {"created", "granted", "denied"}) =>
        /\ last.path # "denied"
        /\ last.after = (IF last.had
                         THEN Min(CapacityOf(last.via),
                                  last.before + UnitsElapsed(last) * RateOf(last.via))
                         ELSE CapacityOf(last.via))
        /\ last.ret = last.after

\* C21: an in-memory limiter and a Redis-backed limiter built with the same
\* tokenPerSecond, capacity, lockDuration and abuse-guard options and given
\* the same getToken calls at the same clock readings, Redis always ready,
\* return the same value to every call.
C21_BackendsAgree ==
    (backend = "both" /\ Returned) => last.ret = twin.ret

\* C22: a Redis-backed limiter that was given no Redis client, can obtain
\* none and has no insurance limiter never returns a value from getToken.
C22_NoDecisionWithoutClient ==
    (backend = "redis" /\ redis = "undefined" /\ ~opts.insuranceLimiter) => ~Returned

\* the token keys as the Redis-backed limiter names them
FullTokenKeys == {opts.keyPrefix \o k : k \in TokenKeys}

\* C23: a lockout marker that exists is left as it is by every script run,
\* whoever the caller: a run that finds it answers "locked" and changes no
\* key, so no denial overwrites it or moves its expiry; a marker appears only
\* in a run that denies for insufficient tokens, with an expiry lockDuration
\* seconds after that run, and is gone from then on.
C23_LockMarkerFirstWriterWins ==
    [][\A key \in FullTokenKeys :
          LET lk == LockKey(key)
          IN /\ (MapHas(store, lk) /\ MapHas(store', lk)) => store'[lk] = store[lk]
             /\ (~MapHas(store, lk) /\ MapHas(store', lk)) =>
                   /\ store'[lk] = [val |-> 1, exp |-> now + opts.lockDuration * 1000]
                   /\ \E req \in BagToSet(inflight) :
                         /\ req.key = key
                         /\ RunScript(req).path = "denied"
                         /\ inflight' = inflight (-) SetToBag({req})
             /\ (MapHas(store, lk) /\ ~MapHas(store', lk)) =>
                   (now' > now /\ ~(now' < store[lk].exp))
             /\ (MapHas(store, lk) /\ last'.via = "redis" /\ last'.key = key) =>
                   (last'.path = "locked" /\ last'.ret = 0 /\ store' = store)
             /\ (last'.via = "redis" /\ last'.key = key /\ last'.path = "locked") =>
                   (MapHas(store, lk) /\ now < store[lk].exp)]_vars

\* a call turned away by a marker that an earlier denial wrote some time
\* before, while another call's eval is pending
C23_Witness ==
    /\ backend = "redis"
    /\ opts.lockDuration > 0
    /\ Returned
    /\ last.via = "redis"
    /\ last.path = "locked"
    /\ MapHas(store, LockKey(last.key))
    /\ store[LockKey(last.key)].exp < now + opts.lockDuration * 1000
    /\ BagCardinality(inflight) >= 1

\* C24: a script run that finds the key's lockout marker returns [1, -1],
\* which getToken turns into 0, and leaves every key of the server as it
\* was: the balance, the last-refill time, the marker and their expiries.
C24_LockedWritesNothing ==
    [][\A req \in BagToSet(inflight) :
          /\ (RedisEval(req) /\ MapHas(store, LockKey(req.key))) =>
                /\ RunScript(req).flag = 1
                /\ RunScript(req).balance = -1
                /\ last'.path = "locked"
                /\ last'.ret = 0
                /\ store' = store
          /\ (RedisEvalThrows(req, TRUE) /\ MapHas(store, LockKey(req.key))) =>
                store' = store]_vars

\* a call turned away by the marker when its bucket held tokens and a refill
\* was due
C24_Witness ==
    /\ Returned
    /\ last.via = "redis"
    /\ last.path = "locked"
    /\ last.ret = 0
    /\ MapHas(store, last.key)
    /\ MapHas(store, StKey(last.key))
    /\ store[last.key].val > 0
    /\ last.at - store[StKey(last.key)].val >= InflowUnit
    /\ store[last.key].val = last.before
    /\ store[StKey(last.key)].val = last.lrtBefore

\* the tokens of the calls i..j of the history that addressed key
RECURSIVE GrantedTokens(_, _, _, _)
GrantedTokens(log, key, i, j) ==
    IF i > j
    THEN 0
    ELSE (IF log[i].key = key THEN log[i].amount ELSE 0) + GrantedTokens(log, key, i + 1, j)

\* ceil(ms / 1000)
CeilSeconds(ms) == (ms + 999) \div 1000

\* C25: over any stretch of time the tokens of the granted calls on one key
\* add up to at most capacity + tokenPerSecond * ceil(T / 1000), T being the
\* milliseconds between the first and the last of them.
C25_BurstBound ==
    \A i \in 1..Len(granted.log), j \in 1..Len(granted.log) :
        (i <= j /\ granted.log[i].key = granted.log[j].key) =>
            GrantedTokens(granted.log, granted.log[i].key, i, j)
                <= opts.capacity
                     + opts.tokenPerSecond
                         * CeilSeconds(granted.log[j].at - granted.log[i].at)

\* C26: with the abuse guard on, a getToken call of a block key that is not
\* locked out and whose window counter was started 60 s ago or more leaves
\* the counter restarted: one call counted, the window starting at the time
\* of this call.
C26_WindowReset ==
    [][\A k \in TokenKeys, b \in BlockKeys, r \in GuardAmounts :
          LET fb == FullBlockedKey(opts, k, b)
              ck == fb \o ":consumed"
          IN (/\ GuardOn
              /\ GuardedCall(k, b, r)
              /\ ~LockedOut(GuardMap, fb, now)
              /\ last'.path # "blocked"
              /\ MapHas(GuardMap, ck)
              /\ GuardMap[ck].firstRequest # 0
              /\ now - GuardMap[ck].firstRequest >= WindowMs)
                => (MapHas(GuardMap', ck) /\ GuardMap'[ck] = ObjVal(1, now))]_vars

\* floor(max(0, ms) / unit)
WholeUnits(ms) == (IF ms > 0 THEN ms ELSE 0) \div InflowUnit

\* C27: a script run at time t for a tokens on an existing bucket of balance
\* b, last refilled at st, computes
\* v = min(capacity, b + floor(max(0, t - st) / unit) * rate - a); it denies
\* exactly when v < 0, and then leaves the balance and the last-refill time
\* as they were; otherwise it returns v and stores v as the balance.
C27_ScriptArithmetic ==
    (Returned /\ last.via = "redis" /\ last.path \in {"granted", "denied"}) =>
        LET v == Min(opts.capacity,
                     last.before + WholeUnits(last.at - last.lrtBefore) * opts.tokenPerSecond
                         - last.requested)
        IN /\ last.had
           /\ last.path = "denied" <=> v < 0
           /\ v < 0 => (last.ret = 0 /\ last.after = last.before
                                     /\ last.lrtAfter = last.lrtBefore)
           /\ v >= 0 => (last.ret = v /\ last.after = v)

\* a run whose caller read its clock before the bucket's last refill time
\* (two calls pending, answered in the other order) and one token granted
C27_Witness ==
    /\ Returned
    /\ last.via = "redis"
    /\ last.path = "granted"
    /\ last.at < last.lrtBefore
    /\ last.requested = 1
    /\ last.after = last.before - 1

\* C28: a granted call for r tokens that refills the bucket stores
\* min(capacity, balance before the call + tokens generated) - r, in both
\* limiters: the clamp to capacity comes before the subtraction.
C28_ClampThenSubtract ==
    (Returned /\ last.via \in {"local", "redis"} /\ last.path = "granted"
              /\ UnitsElapsed(last) >= 1)
        => last.after = Min(opts.capacity,
                            last.before + UnitsElapsed(last) * opts.tokenPerSecond)
                          - last.requested

\* C29: the refill tokens a bucket has received since it was created at t0
\* are at most tokenPerSecond * floor((now - t0) / 1000), whatever granted
\* and denied accesses it has had.
C29_NoDoubleCredit ==
    \A key \in DOMAIN credited.by :
        credited.by[key].tokens
            <= opts.tokenPerSecond * ((now - credited.by[key].t0) \div 1000)

\* a bucket that had a denied access with a refill due and an access after
\* it, and has received every token its age allows
C29_Witness ==
    /\ Returned
    /\ last.path \in {"granted", "denied"}
    /\ MapHas(credited.by, last.key)
    /\ credited.by[last.key].denials >= 1
    /\ ~(last.path = "denied" /\ UnitsElapsed(last) >= 1)
    /\ credited.by[last.key].tokens > 0
    /\ credited.by[last.key].tokens
          = opts.tokenPerSecond * ((now - credited.by[last.key].t0) \div 1000)

\* the call applied a refill to its bucket: one unit or more had elapsed and
\* the limiter stored the result (the script stores nothing when it denies)
RefillApplied(call) ==
    /\ call.path \in {"granted", "denied"}
    /\ UnitsElapsed(call) >= 1
    /\ ~(call.via = "redis" /\ call.path = "denied")

\* C30: a call at time t that applies a refill moves the stored last-refill
\* time on by floor((t - lastRefillTime) / 1000) * 1000 ms, to a time at
\* most t and less than one unit before t, never to t itself unless t is a
\* whole number of units later; a call that applies none leaves it alone.
C30_TimestampWholeUnits ==
    (Returned /\ last.via \in {"local", "insurance", "redis"}
              /\ last.path \in {"granted", "denied"}) =>
        IF RefillApplied(last)
        THEN /\ last.lrtAfter
                  = last.lrtBefore
                      + ((last.at - last.lrtBefore) \div InflowUnit) * InflowUnit
             /\ (last.lrtAfter - last.lrtBefore) % InflowUnit = 0
             /\ last.lrtAfter > last.lrtBefore
             /\ 0 <= last.at - last.lrtAfter
             /\ last.at - last.lrtAfter < InflowUnit
        ELSE last.lrtAfter = last.lrtBefore

\* a refill applied a unit and a half after the last one: the half unit stays
\* to be credited later
C30_Witness ==
    /\ Returned
    /\ RefillApplied(last)
    /\ last.at - last.lrtBefore = InflowUnit + Tick
    /\ last.lrtAfter = last.lrtBefore + InflowUnit
    /\ last.at - last.lrtAfter = Tick

\* C31: a call on an existing bucket never leaves its last-refill time
\* earlier than it found it; a call whose clock reading is earlier than the
\* stored last-refill time leaves that time alone, credits nothing and takes
\* its tokens from the balance it found (the script takes none when it
\* denies).
C31_TimestampNeverDecreases ==
    (Returned /\ last.via \in {"local", "redis"}
              /\ last.path \in {"granted", "denied"}) =>
        /\ last.lrtAfter >= last.lrtBefore
        /\ last.at < last.lrtBefore =>
              /\ last.lrtAfter = last.lrtBefore
              /\ last.after = (IF last.via = "redis" /\ last.path = "denied"
                               THEN last.before
                               ELSE last.before - last.requested)

\* an in-memory call made a full second before the bucket's last refill
\* time, after the clock was set back
C31_Witness ==
    /\ Returned
    /\ last.via = "local"
    /\ last.path = "granted"
    /\ last.requested = 1
    /\ last.lrtBefore - last.at >= InflowUnit
    /\ last.lrtAfter = last.lrtBefore
    /\ last.after = last.before - 1

\* C32: the timer removes an in-memory bucket only when the bucket has not
\* been accessed for KeyExpireTime ms; every access that refills records a
\* last-refill time no later than the access, so a bucket whose last-refill
\* time is less than KeyExpireTime ago is never removed.
C32_EvictedOnlyWhenIdle ==
    [][\A k \in DOMAIN buckets :
          BucketTimer(k) => now - buckets[k].lastRefillTime >= KeyExpireTime]_vars

\* C33: every key the server holds for the limiter has an expiry that is
\* still ahead and at most the time to live the script gives it (60000 ms for
\* the balance and the last-refill time, lockDuration seconds for the
\* marker); a run that creates the bucket or grants leaves the balance key
\* with 60000 ms to live, and so the last-refill key when it writes it.
C33_EveryKeyExpires ==
    /\ \A k \in DOMAIN store :
          /\ store[k].exp # NoExpiry
          /\ now < store[k].exp
          /\ store[k].exp <= now + KeyExpireTime
    /\ \A key \in FullTokenKeys :
          MapHas(store, LockKey(key))
              => store[LockKey(key)].exp <= now + opts.lockDuration * 1000
    /\ (Returned /\ last.via = "redis" /\ last.path \in {"created", "granted"}) =>
          /\ MapHas(store, last.key)
          /\ store[last.key].exp = now + KeyExpireTime
          /\ (last.path = "created" \/ last.lrtAfter # last.lrtBefore) =>
                /\ MapHas(store, StKey(last.key))
                /\ store[StKey(last.key)].exp = now + KeyExpireTime

\* a grant without refill some time after the bucket was created: the
\* balance has its full time to live again, the last-refill key has not
C33_Witness ==
    /\ Returned
    /\ last.via = "redis"
    /\ last.path = "granted"
    /\ store[last.key].exp = now + KeyExpireTime
    /\ store[StKey(last.key)].exp < now + KeyExpireTime

\* The limiters with the abuse guard on, called for any number of tokens:
\* the in-memory limiter with a lockDuration, the Redis-backed limiter
\* failing open
CountSetups ==
    {[backend |-> "local", callers |-> 1, opts |-> Opts(1, 2, FALSE, 0)],
     [backend |-> "redis", callers |-> 1, opts |-> Opts(0, 2, FALSE, 0)]}

\* a call for one token, a call for more than the bucket ever holds
CountAmounts == {1, MaxAmount}

CountNext ==
    \/ \E k \in TokenKeys, b \in BlockKeys, r \in CountAmounts : GetToken(k, b, r)
    \/ \E k \in DOMAIN buckets : BucketTimer(k)
    \/ \E k \in TokenKeys, b \in BlockKeys, r \in CountAmounts, s \in Statuses :
          RedisGetToken(k, b, r, s)
    \/ \E req \in BagToSet(inflight) : RedisEval(req)
    \/ \E req \in BagToSet(inflight), ran \in BOOLEAN : RedisEvalThrows(req, ran)
    \/ \E d \in Deltas : AdvanceClock(d)

CountSpec == InitWith(CountSetups) /\ [][CountNext]_vars

\* the number of calls the guard's Map m holds for block key fb
Consumed(m, fb) ==
    IF MapHas(m, fb \o ":consumed") THEN m[fb \o ":consumed"].consumedTokens ELSE 0

ConcurrentSetups ==
    {[backend |-> "redis", callers |-> 3, opts |-> Opts(0, 1, FALSE, 0)]}

ConcurrentNext ==
    \/ \E k \in TokenKeys, b \in BlockKeys : RedisGetToken(k, b, 1, "ready")
    \/ \E req \in BagToSet(inflight) : RedisEval(req)
    \/ \E req \in BagToSet(inflight), ran \in BOOLEAN : RedisEvalThrows(req, ran)
    \/ \E d \in Deltas : AdvanceClock(d)

ConcurrentSpec == InitWith(ConcurrentSetups) /\ [][ConcurrentNext]_vars

\* the start of the one-minute window the i-th of the calls h falls in, the
\* first call opening a window and each call made 60 s or more after the
\* start of the current window opening the next
RECURSIVE WindowStart(_, _)
WindowStart(h, i) ==
    IF i = 1
    THEN h[1]
    ELSE LET w == WindowStart(h, i - 1)
         IN IF h[i] - w >= WindowMs THEN h[i] ELSE w

\* C35: in the Redis-backed limiter with the abuse guard on, threshold N, a
\* getToken call that is not rejected has counted itself when it suspends on
\* redis.eval, however many earlier calls of its block key still await their
\* answer; and when a call issues its eval, at most N+1 calls of its block
\* key, itself included, have issued one in the current window.
C35_GuardBeforeAwait ==
    [][\A k \in TokenKeys, b \in BlockKeys :
          LET fb == FullBlockedKey(opts, k, b)
              h == calls'[fb]
              found == IF LockoutElapsed(GuardMap, fb, now) THEN 0 ELSE Consumed(GuardMap, fb)
          IN (GuardOn /\ RedisGetToken(k, b, 1, "ready") /\ last'.path # "blocked") =>
               /\ BagCardinality(inflight') = BagCardinality(inflight) + 1
               /\ Consumed(GuardMap', fb) = found + 1
               /\ Cardinality({i \in 1..Len(h) : h[i] >= WindowStart(h, Len(h))})
                     <= opts.inMemoryBlockOnConsumed + 1]_vars

\* Two token keys, one the other followed by "-lock", each called without a
\* block key (so each is its own block key), on the two limiters with a
\* lockDuration
IsolationKeys == {"user1", "user1-lock"}

IsolationAmounts == {1, MaxAmount}

IsolationSetups ==
    {[backend |-> b, callers |-> 1, opts |-> Opts(1, 0, FALSE, 0)] :
        b \in {"local", "redis"}}

IsolationNext ==
    \/ \E k \in IsolationKeys, r \in IsolationAmounts : GetToken(k, "", r)
    \/ \E k \in DOMAIN buckets : BucketTimer(k)
    \/ \E k \in IsolationKeys, r \in IsolationAmounts, s \in Statuses :
          RedisGetToken(k, "", r, s)
    \/ \E req \in BagToSet(inflight) : RedisEval(req)
    \/ \E req \in BagToSet(inflight), ran \in BOOLEAN : RedisEvalThrows(req, ran)
    \/ \E d \in Deltas : AdvanceClock(d)

IsolationSpec == InitWith(IsolationSetups) /\ [][IsolationNext]_vars

\* what the limiter under test holds for token key k called without a block
\* key: its bucket, its lockout and counter entries, its keys on the server
KeyState(k) ==
    LET fk == opts.keyPrefix \o k
    IN [bucket |-> [x \in {fk} \cap DOMAIN buckets |-> buckets[x]],
        guard |-> [x \in {fk, fk \o "-lock", fk \o ":consumed"} \cap DOMAIN GuardMap
                      |-> GuardMap[x]],
        keys |-> [x \in {y \in {fk, StKey(fk), LockKey(fk)} : RedisExists(store, y, now)}
                      |-> store[x]]]

\* the step is a getToken call on token key k without a block key, or the
\* script run or the failure that answers one
CallOn(k) ==
    \/ \E r \in IsolationAmounts : GetToken(k, "", r)
    \/ \E r \in IsolationAmounts, s \in Statuses : RedisGetToken(k, "", r, s)
    \/ \E req \in BagToSet(inflight) :
          /\ req.key = opts.keyPrefix \o k
          /\ \/ RedisEval(req)
             \/ \E ran \in BOOLEAN : RedisEvalThrows(req, ran)

\* C36: a getToken call on one token key leaves the bucket, the lockout and
\* the counter of every other token key as they were.
C36_KeysIsolated ==
    [][\A k1 \in IsolationKeys, k2 \in IsolationKeys :
          (k1 # k2 /\ CallOn(k1)) => KeyState(k2)' = KeyState(k2)]_vars

\* The two limiters side by side with a lockDuration and the abuse guard on
\* (thresholds 1 and 2), every call awaited
PauseSetups ==
    {[backend |-> "both", callers |-> 1, opts |-> Opts(1, t, FALSE, 0)] : t \in {1, 2}}

PauseSpec == InitWith(PauseSetups) /\ [][BothNext]_vars

\* the longest lockout the limiter is configured with, in milliseconds
LongestLockout ==
    1000 * (IF opts.lockDuration > opts.inMemoryBlockDuration
            THEN opts.lockDuration
            ELSE opts.inMemoryBlockDuration)

\* the time of the latest getToken call (the guard being on, every call of
\* a block key is in calls)
LastRequest ==
    LET times == {calls[fb][Len(calls[fb])] : fb \in DOMAIN calls}
    IN CHOOSE t \in times : \A u \in times : u <= t

\* every lockout held has its deadline within the longest lockout from now
DeadlinesAhead ==
    /\ \A m \in {blockedKeys, redisBlockedKeys} : \A k \in DOMAIN m :
          m[k].type = "number" => m[k].val <= now + LongestLockout
    /\ \A k \in DOMAIN store : /\ store[k].exp # NoExpiry
                               /\ store[k].exp <= now + KeyExpireTime

\* C37: every lockout held has a deadline, at most the longest configured
\* lockout ahead (60 s for a key on the server); and a getToken call for one
\* token made when no call has been made for the longest lockout plus 60 s
\* is answered with a value above 0 by both limiters, whatever calls were
\* made before.
C37_GrantedAfterPause ==
    [][/\ DeadlinesAhead'
       /\ \A k \in TokenKeys, b \in BlockKeys :
             (/\ BothGetToken(k, b, 1)
              /\ calls # EmptyMap
              /\ now - LastRequest >= LongestLockout + KeyExpireTime)
                => (last'.ret > 0 /\ twin'.ret > 0)]_vars

\* a unit call granted by both limiters 61 s after a call that both had
\* denied and answered with a lockout
C37_Witness ==
    /\ backend = "both"
    /\ Returned
    /\ last.requested = 1
    /\ last.ret > 0
    /\ twin.ret > 0
    /\ \E fb \in DOMAIN calls :
          LET h == calls[fb]
          IN /\ DOMAIN calls = {fb}
             /\ Len(h) >= 2
             /\ h[Len(h)] = last.at
             /\ h[Len(h)] - h[Len(h) - 1] >= LongestLockout + KeyExpireTime
             /\ MapHas(deniedAt, last.key)
             /\ deniedAt[last.key] = h[Len(h) - 1]

\* one entry short of the sweep's threshold
OtherEntries == SweepThreshold - 1

\* The limiters with the abuse guard on (threshold 1) whose Map holds 998
\* counters of other block keys: the first entry a call adds fills the Map to
\* 999 entries, the second brings the sweep
SweepSetups ==
    {[backend |-> b, callers |-> 1, opts |-> Opts(0, 1, FALSE, 0),
      entries |-> OtherEntries] : b \in {"local", "redis"}}

\* the clock advances by a lockout's duration or by a window's length
SweepDeltas == {2 * Tick, KeyExpireTime}

\* calls for one token; the Redis-backed limiter is called while Redis is
\* not ready (the guard runs before the connection is looked at)
SweepNext ==
    \/ \E k \in TokenKeys, b \in BlockKeys : GetToken(k, b, 1)
    \/ \E k \in DOMAIN buckets : BucketTimer(k)
    \/ \E k \in TokenKeys, b \in BlockKeys : RedisGetToken(k, b, 1, "reconnecting")
    \/ \E d \in SweepDeltas : AdvanceClock(d)

SweepSpec == InitWith(SweepSetups) /\ [][SweepNext]_vars

\* the entry v of the guard's Map is expired at time t: a lockout whose
\* deadline is reached, a window record whose window started 60 s ago or more
EntryExpired(v, t) ==
    \/ v.type = "number" /\ v.val <= t
    \/ v.type = "object" /\ t - v.firstRequest >= WindowMs

\* the step is a getToken call of block key fb (with the guard on, every
\* call is noted in calls)
CallOfBlockKey(fb) ==
    /\ GuardOn
    /\ fb \in DOMAIN calls'
    /\ fb \in DOMAIN calls => calls'[fb] # calls[fb]

\* the guard's Map of a call of block key fb that is not rejected, before
\* the sweep
BeforeSweep(fb) ==
    LET chk == IF backend = "local" THEN IsKeyBlocked(GuardMap, fb, now)
                                    ELSE RedisIsKeyBlocked(GuardMap, fb, now)
    IN Counted(opts, chk.map, fb, now)

\* C38 as stated: a getToken call that is not rejected leaves the guard's Map
\* as the count left it when that Map holds 999 entries or fewer; otherwise
\* every entry that is not expired stays as it is.
C38_SweepRemovesExpiredOnly ==
    [][\A fb \in DOMAIN calls' :
          (CallOfBlockKey(fb) /\ last'.path # "blocked") =>
              LET m3 == BeforeSweep(fb)
              IN /\ Cardinality(DOMAIN m3) <= SweepThreshold => GuardMap' = m3
                 /\ \A x \in DOMAIN m3 :
                       ~EntryExpired(m3[x], now)
                           => (MapHas(GuardMap', x) /\ GuardMap'[x] = m3[x])]_vars

\* the counters the in-memory limiter's sweep drops along with an expired
\* lockout
CountersOfExpired(m, t) ==
    {x \o ":consumed" : x \in {y \in DOMAIN m : /\ m[y].type = "number"
                                                /\ m[y].val <= t
                                                /\ ~EndsWith(y, "-lock")}}

\* C38: a getToken call that is not rejected leaves the guard's Map as the
\* count left it when that Map holds 999 entries or fewer; otherwise no
\* lockout with its deadline ahead is removed, and no window record younger
\* than 60 s but, in the in-memory limiter, the record of a block key whose
\* lockout is expired and removed with it; every expired lockout and every
\* record 60 s old is removed.
C38_SweepKeepsLiveEntries ==
    [][\A fb \in DOMAIN calls' :
          (CallOfBlockKey(fb) /\ last'.path # "blocked") =>
              LET m3 == BeforeSweep(fb)
                  dead == IF backend = "local" THEN CountersOfExpired(m3, now) ELSE {}
              IN /\ Cardinality(DOMAIN m3) <= SweepThreshold => GuardMap' = m3
                 /\ Cardinality(DOMAIN m3) > SweepThreshold =>
                       /\ DOMAIN GuardMap' =
                             {x \in DOMAIN m3 : ~EntryExpired(m3[x], now)} \ dead
                       /\ \A x \in DOMAIN GuardMap' : GuardMap'[x] = m3[x]]_vars

\* a sweep has removed the expired lockout of a block key that was not
\* called since, and has kept the 998 counters of the other keys
C38_Witness ==
    /\ GuardOn
    /\ Returned
    /\ Cardinality(DOMAIN GuardMap) > OtherEntries
    /\ \E fb \in DOMAIN calls :
          LET h == calls[fb]
              n == opts.inMemoryBlockOnConsumed
          IN /\ Len(h) > n
             /\ h[n + 1] - h[1] < WindowMs
             /\ h[Len(h)] < now
             /\ ~MapHas(GuardMap, fb)

\* C39: whenever a bucket's last-refill key is held by the server, so is its
\* balance key, with at least as long to live; and no pending eval would
\* find a last-refill time without a balance (the script's arithmetic on a
\* missing balance, which makes eval fail).
C39_BalanceOutlivesLastRefill ==
    /\ \A key \in FullTokenKeys :
          RedisExists(store, StKey(key), now) =>
              /\ RedisExists(store, key, now)
              /\ store[key].exp >= store[StKey(key)].exp
    /\ \A req \in BagToSet(inflight) : RunScript(req).path # "error"

\* a call the script has denied on a bucket whose balance has more time to
\* live than its last-refill time: created, then granted without refill later
C39_Witness ==
    /\ Returned
    /\ last.via = "redis"
    /\ last.path = "denied"
    /\ RedisExists(store, StKey(last.key), now)
    /\ RedisExists(store, last.key, now)
    /\ store[last.key].exp > store[StKey(last.key)].exp

====
